---- MODULE Spec2Model ----
(***************************************************************************)
(* The commit log of kentakki416/proglog: a store file of length-prefixed  *)
(* frames, a memory-mapped index of 12-byte entries, segments that couple  *)
(* one store with one index, and the Log that rolls, routes and truncates  *)
(* segments.  Files are byte sequences, integers are encoded big-endian    *)
(* as the code encodes them, and the goroutines that call the Log are the  *)
(* processes of the model.                                                 *)
(***************************************************************************)
EXTENDS Integers, Sequences, FiniteSets, TLC

(* ------------------------------ bounds -------------------------------- *)

\* Calls that change the log (Append, Truncate, Close, Reset, NewLog) and
\* calls of the server's stream handlers in a run.
MaxOps == 4

\* Offsets a caller passes to Read and Truncate: 0 .. MaxOff.
MaxOff == 5

(* -------------------------- program constants ------------------------- *)

lenWidth == 8
offWidth == 4
posWidth == 8
entWidth == offWidth + posWidth

\* NewLog's default for a zero MaxStoreBytes.
DefaultMaxStoreBytes == 1024
\* NewLog's default for a zero MaxIndexBytes.
DefaultMaxIndexBytes == 1024

(* ------------------------------ inputs -------------------------------- *)

\* The goroutines calling into the Log.
Threads == {"t1", "t2"}

\* Record values a caller appends ("A" and "BB").
Values == {<<65>>, <<66, 66>>}

\* The Config values NewLog is called with: the all-zero Config, a store
\* threshold passed by the second record, a store threshold below the
\* smallest frame (passed by every record), an index with room for two
\* entries (and a non-zero InitialOffset), and an index too small for a
\* single entry.
Configs ==
    { [MaxStoreBytes |-> 0,  MaxIndexBytes |-> 0,  InitialOffset |-> 0],
      [MaxStoreBytes |-> 20, MaxIndexBytes |-> 48, InitialOffset |-> 0],
      [MaxStoreBytes |-> 8,  MaxIndexBytes |-> 24, InitialOffset |-> 0],
      [MaxStoreBytes |-> 64, MaxIndexBytes |-> 30, InitialOffset |-> 2],
      [MaxStoreBytes |-> 64, MaxIndexBytes |-> 5,  InitialOffset |-> 0] }

Offsets == 0 .. MaxOff

\* The lengths of the buffer a caller reads the Log's reader with: shorter
\* than a frame, and longer than one.
BufferLens == {5, 16}

(* --------------------------- byte encodings --------------------------- *)

\* enc.PutUint64 / enc.PutUint32 / binary.Write: n as w big-endian bytes.
RECURSIVE PutUint(_, _)
PutUint(n, w) ==
    IF w = 0 THEN <<>> ELSE Append(PutUint(n \div 256, w - 1), n % 256)

\* enc.Uint64 / enc.Uint32: the big-endian value of the bytes b.
RECURSIVE Uint(_)
Uint(b) ==
    IF b = <<>> THEN 0
    ELSE Uint(SubSeq(b, 1, Len(b) - 1)) * 256 + b[Len(b)]

\* proto.Marshal of api.Record{Value, Offset} (proto3: a field holding its
\* zero value is left out; field 1 is the bytes value, field 2 the offset).
Marshal(record) ==
    (IF Len(record.Value) > 0
        THEN <<10, Len(record.Value)>> \o record.Value ELSE <<>>)
    \o (IF record.Offset > 0 THEN <<16, record.Offset>> ELSE <<>>)

\* proto.Unmarshal into a fresh api.Record: the fields in the order they come.
RECURSIVE UnmarshalInto(_, _)
UnmarshalInto(p, record) ==
    IF p = <<>> THEN [err |-> "nil", record |-> record]
    ELSE IF p[1] = 10 /\ Len(p) >= 2 /\ Len(p) >= 2 + p[2]
        THEN UnmarshalInto(SubSeq(p, 3 + p[2], Len(p)),
                           [record EXCEPT !.Value = SubSeq(p, 3, 2 + p[2])])
    ELSE IF p[1] = 16 /\ Len(p) >= 2 /\ p[2] < 128
        THEN UnmarshalInto(SubSeq(p, 3, Len(p)),
                           [record EXCEPT !.Offset = p[2]])
    ELSE [err |-> "proto", record |-> record]

Unmarshal(p) == UnmarshalInto(p, [Value |-> <<>>, Offset |-> 0])

(* ------------------------------- files -------------------------------- *)

\* A file (inode): its bytes and its length.  Bytes past Len(data) and below
\* len are zero (a file extended by truncate).
EmptyFile == [data |-> <<>>, len |-> 0]

\* The byte at 0-based position k of file f.
ByteAt(f, k) == IF k < Len(f.data) THEN f.data[k + 1] ELSE 0

\* The n bytes of f from 0-based position off.
Bytes(f, off, n) == [k \in 1 .. n |-> ByteAt(f, off + k - 1)]

\* f with the bytes b stored from 0-based position off (off <= Len(f.data)
\* or the gap is zero-filled).
PutBytes(f, off, b) ==
    LET hi == IF off + Len(b) > Len(f.data) THEN off + Len(b) ELSE Len(f.data)
    IN  [f EXCEPT !.data =
            [k \in 1 .. hi |->
                IF k > off /\ k <= off + Len(b) THEN b[k - off]
                ELSE ByteAt(f, k - 1)]]

\* os.File.ReadAt of n bytes at off on an open or closed handle: the bytes
\* that are there, and io.EOF when they are fewer than n.
FileReadAt(f, closed, off, n) ==
    IF closed THEN [err |-> "ErrClosed", b |-> <<>>]
    ELSE IF n = 0 THEN [err |-> "nil", b |-> <<>>]
    ELSE IF off >= f.len THEN [err |-> "EOF", b |-> <<>>]
    ELSE IF off + n > f.len
        THEN [err |-> "EOF", b |-> Bytes(f, off, f.len - off)]
    ELSE [err |-> "nil", b |-> Bytes(f, off, n)]

(* ---------------------------- file system ----------------------------- *)

\* The file system as the Log sees it: whether Dir exists, the names in it
\* (<<base, ext>> for "{base}.{ext}") and the inodes, which outlive their
\* names while a handle or a mapping refers to them.
NoFs == [dir |-> TRUE, names |-> <<>>, inodes |-> <<>>]

NameSet(fs) == DOMAIN fs.names

\* The inode number a new file gets.
FreshIno(fs) ==
    CHOOSE n \in 1 .. (Cardinality(DOMAIN fs.inodes) + 1) : n \notin DOMAIN fs.inodes

\* O_CREATE: name is bound to the new, empty inode n.
CreateFile(fs, name, n) ==
    [err |-> "nil",
     fs  |-> [fs EXCEPT !.names  = (name :> n) @@ fs.names,
                        !.inodes = (n :> EmptyFile) @@ fs.inodes],
     ino |-> n]

\* os.OpenFile(name, O_RDWR|O_CREATE...): the inode behind name, created when
\* the name is new; fails when Dir is gone.
OpenFile(fs, name) ==
    IF ~fs.dir THEN [err |-> "ENOENT", fs |-> fs, ino |-> 0]
    ELSE IF name \in NameSet(fs)
        THEN [err |-> "nil", fs |-> fs, ino |-> fs.names[name]]
    ELSE CreateFile(fs, name, FreshIno(fs))

\* os.Remove(name).
RemoveFile(fs, name) ==
    IF name \notin NameSet(fs) THEN [err |-> "ENOENT", fs |-> fs]
    ELSE [err |-> "nil",
          fs  |-> [fs EXCEPT !.names =
                      [m \in NameSet(fs) \ {name} |-> fs.names[m]]]]

\* os.RemoveAll(Dir).
RemoveAll(fs) == [fs EXCEPT !.dir = FALSE, !.names = <<>>]

\* os.Truncate / File.Truncate to n bytes.
TruncateFile(f, n) ==
    [data |-> SubSeq(f.data, 1, IF Len(f.data) < n THEN Len(f.data) ELSE n),
     len  |-> n]

(* ------------------------------- store -------------------------------- *)

\* newStore: size is the file's length on disk, the buffer is empty.
newStore(fs, ino) ==
    [ino |-> ino, size |-> fs.inodes[ino].len, buf |-> <<>>,
     closed |-> FALSE, err |-> FALSE]

\* A store.Append that reports the position after the frame it wrote instead
\* of the position of the frame.
storeAppendPosAfter(st, p) ==
    IF st.err THEN [err |-> "ErrClosed", st |-> st, n |-> 0, pos |-> 0]
    ELSE [err |-> "nil",
          st  |-> [st EXCEPT !.buf  = st.buf \o PutUint(Len(p), lenWidth) \o p,
                             !.size = st.size + Len(p) + lenWidth],
          n   |-> Len(p) + lenWidth,
          pos |-> st.size + Len(p) + lenWidth]

\* store.Append: the frame goes into the write buffer (frames are far smaller
\* than bufio's buffer, so Write never flushes); a buffer whose flush failed
\* before refuses the write.
storeAppend(st, p) ==
    IF st.err THEN [err |-> "ErrClosed", st |-> st, n |-> 0, pos |-> 0]
    ELSE [err |-> "nil",
          st  |-> [st EXCEPT !.buf  = st.buf \o PutUint(Len(p), lenWidth) \o p,
                             !.size = st.size + Len(p) + lenWidth],
          n   |-> Len(p) + lenWidth,
          pos |-> st.size]

\* A Flush that leaves the buffered bytes in the buffer.
storeFlushNothing(st, fs) == [err |-> "nil", st |-> st, fs |-> fs]

\* s.buf.Flush: the buffered bytes are appended to the file (O_APPEND); on a
\* closed file the write fails and the buffer keeps the error.
storeFlush(st, fs) ==
    IF st.err THEN [err |-> "ErrClosed", st |-> st, fs |-> fs]
    ELSE IF st.buf = <<>> THEN [err |-> "nil", st |-> st, fs |-> fs]
    ELSE IF st.closed
        THEN [err |-> "ErrClosed", st |-> [st EXCEPT !.err = TRUE], fs |-> fs]
    ELSE [err |-> "nil",
          st  |-> [st EXCEPT !.buf = <<>>],
          fs  |-> [fs EXCEPT !.inodes[st.ino] =
                      [data |-> @.data \o st.buf, len |-> @.len + Len(st.buf)]]]

\* store.Read after the second ReadAt, b: the payload or its error.
storeReadData(fl, b) ==
    [err |-> b.err, b |-> IF b.err # "nil" THEN <<>> ELSE b.b,
     st |-> fl.st, fs |-> fl.fs]

\* store.Read after the first ReadAt, size: the payload of Uint(size) bytes
\* is read at pos + lenWidth.
storeReadLen(fl, pos, size) ==
    IF size.err # "nil"
        THEN [err |-> size.err, b |-> <<>>, st |-> fl.st, fs |-> fl.fs]
    ELSE storeReadData(fl, FileReadAt(fl.fs.inodes[fl.st.ino], fl.st.closed,
                                      pos + lenWidth, Uint(size.b)))

\* store.Read after the flush, fl: the 8-byte length is read at pos.
storeReadFlushed(fl, pos) ==
    IF fl.err # "nil"
        THEN [err |-> fl.err, b |-> <<>>, st |-> fl.st, fs |-> fl.fs]
    ELSE storeReadLen(fl, pos, FileReadAt(fl.fs.inodes[fl.st.ino], fl.st.closed,
                                          pos, lenWidth))

\* store.Read(pos): flush, read the 8-byte length at pos, read that many bytes.
storeRead(st, fs, pos) == storeReadFlushed(storeFlush(st, fs), pos)

\* store.ReadAt after the flush, fl: File.ReadAt, or the error of the flush
\* with no bytes.
storeReadAtFlushed(fl, off, n, rd) ==
    IF fl.err # "nil" THEN [err |-> fl.err, b |-> <<>>, st |-> fl.st, fs |-> fl.fs]
    ELSE [err |-> rd.err, b |-> rd.b, st |-> fl.st, fs |-> fl.fs]

\* store.ReadAt(p, off) with len(p) = n: flush, then File.ReadAt.
storeReadAt(st, fs, off, n) ==
    storeReadAtFlushed(storeFlush(st, fs), off, n,
                       FileReadAt(storeFlush(st, fs).fs.inodes[st.ino],
                                  st.closed, off, n))

\* store.Close after the flush, fl: a failed flush returns before the file
\* is closed.
storeCloseFlushed(fl) ==
    IF fl.err # "nil" THEN fl
    ELSE IF fl.st.closed THEN [fl EXCEPT !.err = "ErrClosed"]
    ELSE [fl EXCEPT !.st.closed = TRUE]

\* store.Close: flush, then close the file.
storeClose(st, fs) == storeCloseFlushed(storeFlush(st, fs))

(* ------------------------------- index -------------------------------- *)

\* newIndex: size is the file's length on disk; the file is then extended to
\* MaxIndexBytes and mapped whole.
newIndex(fs, ino, c) ==
    [idx |-> [ino |-> ino, size |-> fs.inodes[ino].len,
              mmapLen |-> c.MaxIndexBytes, closed |-> FALSE],
     fs  |-> [fs EXCEPT !.inodes[ino] = TruncateFile(@, c.MaxIndexBytes)]]

\* An isMaxed that reports a full index one entry late.
isMaxedLate(idx) == idx.mmapLen < idx.size

\* index.isMaxed: no room in the mapping for one more entry.
isMaxed(idx) == idx.mmapLen < idx.size + entWidth

\* index.Read of entry number out, at byte out * entWidth of the mapping.  A
\* slice of the mapping past its length is a run-time panic.
indexReadEntry(idx, f, out) ==
    IF idx.size < out * entWidth + entWidth
        THEN [err |-> "EOF", out |-> 0, pos |-> 0]
    ELSE IF idx.mmapLen < out * entWidth + entWidth
        THEN [err |-> "panic", out |-> 0, pos |-> 0]
    ELSE [err |-> "nil",
          out |-> Uint(Bytes(f, out * entWidth, offWidth)),
          pos |-> Uint(Bytes(f, out * entWidth + offWidth, posWidth))]

\* index.Read(in): entry in, or the last entry for in = -1.  The entry
\* number is a uint32: (size / entWidth) - 1 wraps to 2^32 - 1 when the index
\* holds less than one entry, and that entry lies past size.
indexRead(idx, fs, in) ==
    IF idx.size = 0 THEN [err |-> "EOF", out |-> 0, pos |-> 0]
    ELSE IF in = -1 /\ idx.size \div entWidth = 0
        THEN [err |-> "EOF", out |-> 0, pos |-> 0]
    ELSE indexReadEntry(idx, fs.inodes[idx.ino],
                        IF in = -1 THEN (idx.size \div entWidth) - 1 ELSE in)

\* index.Read(in) for the int64 in = hi * 2^32 + lo with hi >= 0 and
\* 0 <= lo < 2^32: the entry number is uint32(in), which is lo.
indexReadInt64(idx, fs, hi, lo) == indexRead(idx, fs, lo)

\* index.Write(off, pos): the entry is stored at size in the shared mapping.
\* A store into a page of the mapping that lies wholly past the end of the
\* file (the file was truncated to nothing by Close) is a fatal fault; every
\* mapping of the model fits one page.
indexWrite(idx, fs, off, pos) ==
    IF isMaxed(idx) THEN [err |-> "EOF", idx |-> idx, fs |-> fs]
    ELSE IF fs.inodes[idx.ino].len = 0
        THEN [err |-> "panic", idx |-> idx, fs |-> fs]
    ELSE [err |-> "nil",
          idx |-> [idx EXCEPT !.size = idx.size + entWidth],
          fs  |-> [fs EXCEPT !.inodes[idx.ino] =
                      PutBytes(@, idx.size,
                               PutUint(off, offWidth) \o PutUint(pos, posWidth))]]

\* index.Close: sync the mapping and the file, truncate the file to size,
\* close it.  file.Sync fails on a handle that is closed already.
indexClose(idx, fs) ==
    IF idx.closed THEN [err |-> "ErrClosed", idx |-> idx, fs |-> fs]
    ELSE [err |-> "nil",
          idx |-> [idx EXCEPT !.closed = TRUE],
          fs  |-> [fs EXCEPT !.inodes[idx.ino] = TruncateFile(@, idx.size)]]

(* ------------------------------ segment ------------------------------- *)

\* newSegment, the end: nextOffset follows the last index entry rd, or is
\* baseOffset when index.Read(-1) failed.
newSegmentNext(baseOffset, st, ni, rd) ==
    [err |-> "nil",
     fs  |-> ni.fs,
     seg |-> [store      |-> st,
              index      |-> ni.idx,
              baseOffset |-> baseOffset,
              nextOffset |-> IF rd.err # "nil" THEN baseOffset
                             ELSE baseOffset + rd.out + 1]]

\* newSegment after newIndex, ni: index.Read(-1).
newSegmentIndexed(baseOffset, st, ni) ==
    newSegmentNext(baseOffset, st, ni, indexRead(ni.idx, ni.fs, -1))

\* newSegment after the index file was opened, xf: newIndex.
newSegmentIndex(baseOffset, c, st, xf) ==
    IF xf.err # "nil" THEN [err |-> xf.err, fs |-> xf.fs, seg |-> <<>>]
    ELSE newSegmentIndexed(baseOffset, st, newIndex(xf.fs, xf.ino, c))

\* newSegment after the store file was opened, sf: newStore, then the index
\* file is opened or created.
newSegmentStore(baseOffset, c, sf) ==
    IF sf.err # "nil" THEN [err |-> sf.err, fs |-> sf.fs, seg |-> <<>>]
    ELSE newSegmentIndex(baseOffset, c, newStore(sf.fs, sf.ino),
                         OpenFile(sf.fs, <<baseOffset, "index">>))

\* newSegment(dir, baseOffset, c): open or create "{base}.store" and
\* "{base}.index".
newSegment(fs, baseOffset, c) ==
    newSegmentStore(baseOffset, c, OpenFile(fs, <<baseOffset, "store">>))

\* segment.Append after store.Append, ap.
segmentStored(seg, ap) ==
    [err |-> ap.err, cur |-> seg.nextOffset, pos |-> ap.pos,
     seg |-> [seg EXCEPT !.store = ap.st]]

\* segment.Append up to the store write: the record is stamped with
\* nextOffset, marshalled and appended to the store.
segmentAppendStore(seg, value) ==
    segmentStored(seg, storeAppend(seg.store,
                      Marshal([Value |-> value, Offset |-> seg.nextOffset])))

\* A segment.Append that advances nextOffset also when index.Write failed.
segmentIndexedAlways(seg, fs, wr) ==
    [err |-> wr.err,
     seg |-> [seg EXCEPT !.index = wr.idx, !.nextOffset = seg.nextOffset + 1],
     fs  |-> wr.fs]

\* segment.Append after index.Write, wr: nextOffset++ unless it failed.
segmentIndexed(seg, fs, wr) ==
    IF wr.err # "nil" THEN [err |-> wr.err, seg |-> seg, fs |-> fs]
    ELSE [err |-> "nil",
          seg |-> [seg EXCEPT !.index = wr.idx,
                              !.nextOffset = seg.nextOffset + 1],
          fs  |-> wr.fs]

\* segment.Append from the index write: entry (nextOffset - baseOffset, pos),
\* then nextOffset++.
segmentAppendIndex(seg, fs, pos) ==
    segmentIndexed(seg, fs,
        indexWrite(seg.index, fs, seg.nextOffset - seg.baseOffset, pos))

NoRecord == [Value |-> <<>>, Offset |-> 0]

\* segment.Read after store.Read succeeded, rd: proto.Unmarshal, un.
segmentReadRecord(seg, rd, un) ==
    [err |-> un.err, record |-> un.record,
     seg |-> [seg EXCEPT !.store = rd.st], fs |-> rd.fs]

\* segment.Read after store.Read, rd.
segmentReadStore(seg, rd) ==
    IF rd.err # "nil"
        THEN [err |-> rd.err, record |-> NoRecord,
              seg |-> [seg EXCEPT !.store = rd.st], fs |-> rd.fs]
    ELSE segmentReadRecord(seg, rd, Unmarshal(rd.b))

\* segment.Read after index.Read, ix.
segmentReadIndex(seg, fs, ix) ==
    IF ix.err # "nil"
        THEN [err |-> ix.err, record |-> NoRecord, seg |-> seg, fs |-> fs]
    ELSE segmentReadStore(seg, storeRead(seg.store, fs, ix.pos))

\* segment.Read(off): index entry off - baseOffset, the frame at its
\* position, unmarshalled.
segmentRead(seg, fs, off) ==
    segmentReadIndex(seg, fs, indexRead(seg.index, fs, off - seg.baseOffset))

\* An IsMaxed that looks at the store only.
IsMaxedStoreOnly(seg, c) == seg.store.size >= c.MaxStoreBytes

\* segment.IsMaxed.
IsMaxed(seg, c) ==
    \/ seg.store.size >= c.MaxStoreBytes
    \/ seg.index.size >= c.MaxIndexBytes
    \/ isMaxed(seg.index)

\* segment.Close after index.Close succeeded, ic, and store.Close, sc.
segmentCloseStore(seg, ic, sc) ==
    [err |-> sc.err,
     seg |-> [seg EXCEPT !.index = ic.idx, !.store = sc.st],
     fs  |-> sc.fs]

\* segment.Close after index.Close, ic: its error returns, else store.Close.
segmentCloseIndex(seg, fs, ic) ==
    IF ic.err # "nil" THEN [err |-> ic.err, seg |-> seg, fs |-> fs]
    ELSE segmentCloseStore(seg, ic, storeClose(seg.store, ic.fs))

\* segment.Close: the index, then the store; the first error returns.
segmentClose(seg, fs) == segmentCloseIndex(seg, fs, indexClose(seg.index, fs))

\* segment.Remove after the index file was removed, ri: the store file.
segmentRemoveStore(cl, ri, rs) ==
    IF ri.err # "nil" THEN [err |-> ri.err, seg |-> cl.seg, fs |-> ri.fs]
    ELSE [err |-> rs.err, seg |-> cl.seg, fs |-> rs.fs]

\* segment.Remove after os.Remove of the index file, ri.
segmentRemoveIndex(cl, ri) ==
    segmentRemoveStore(cl, ri, RemoveFile(ri.fs, <<cl.seg.baseOffset, "store">>))

\* segment.Remove after Close, cl: its error returns, else the files go.
segmentRemoveClosed(cl) ==
    IF cl.err # "nil" THEN cl
    ELSE segmentRemoveIndex(cl, RemoveFile(cl.fs, <<cl.seg.baseOffset, "index">>))

\* segment.Remove: close, then delete the index file and the store file.
segmentRemove(seg, fs) == segmentRemoveClosed(segmentClose(seg, fs))

(* -------------------------------- Log --------------------------------- *)

\* A Log value: the segment objects ever made for it (heap, a segment pointer
\* is a position in it), l.segments and l.activeSegment (0 is nil).
NoLog == [heap |-> <<>>, segments |-> <<>>, activeSegment |-> 0]

\* NewLog's defaults for a zero MaxStoreBytes and a zero MaxIndexBytes.
WithDefaults(c) ==
    [c EXCEPT !.MaxStoreBytes = IF @ = 0 THEN DefaultMaxStoreBytes ELSE @,
              !.MaxIndexBytes = IF @ = 0 THEN DefaultMaxIndexBytes ELSE @]

\* Log.newSegment after newSegment, ns: the new segment is appended to
\* l.segments and becomes the active segment.
LogNewSegmentAdd(l, ns) ==
    IF ns.err # "nil" THEN [err |-> ns.err, l |-> l, fs |-> ns.fs]
    ELSE [err |-> "nil",
          l   |-> [heap          |-> Append(l.heap, ns.seg),
                   segments      |-> Append(l.segments, Len(l.heap) + 1),
                   activeSegment |-> Len(l.heap) + 1],
          fs  |-> ns.fs]

\* Log.newSegment(off).
LogNewSegment(l, fs, off, c) == LogNewSegmentAdd(l, newSegment(fs, off, c))

\* The base offsets parsed from the file names of Dir, one per file, sorted
\* ascending (sort.Slice); sorted holds the smallest ones so far.
RECURSIVE SortedBases(_, _)
SortedBases(names, sorted) ==
    IF names = {} THEN sorted
    ELSE SortedBases(
            names \ {CHOOSE n \in names : \A k \in names : n[1] <= k[1]},
            Append(sorted,
                   (CHOOSE n \in names : \A k \in names : n[1] <= k[1])[1]))

\* The loop of setup from i (1-based): a segment for baseOffsets[i], then i
\* is advanced by two (the loop's i++ and the body's i++); an error returns.
\* p is the Log and the file system so far.
RECURSIVE SetupLoop(_, _, _, _)
SetupLoop(p, baseOffsets, i, c) ==
    IF p.err # "nil" \/ i > Len(baseOffsets) THEN p
    ELSE SetupLoop(LogNewSegment(p.l, p.fs, baseOffsets[i], c),
                   baseOffsets, i + 2, c)

\* setup after the loop, lp: a segment at InitialOffset when l.segments is nil.
setupInitial(lp, c) ==
    IF lp.err # "nil" THEN lp
    ELSE IF lp.l.segments = <<>>
        THEN LogNewSegment(lp.l, lp.fs, c.InitialOffset, c)
    ELSE lp

\* Log.setup: os.ReadDir, a segment per pair of files in Dir.
setup(l, fs, c) ==
    IF ~fs.dir THEN [err |-> "ENOENT", l |-> l, fs |-> fs]
    ELSE setupInitial(SetupLoop([err |-> "nil", l |-> l, fs |-> fs],
                                SortedBases(NameSet(fs), <<>>), 1, c), c)

\* Log.highestOffset: nextOffset of the last segment, minus one unless it is 0.
\* Called with a non-empty l.segments (the callers check for the
\* index-out-of-range panic).
highestOffset(l) ==
    IF l.heap[l.segments[Len(l.segments)]].nextOffset = 0 THEN 0
    ELSE l.heap[l.segments[Len(l.segments)]].nextOffset - 1

\* Whether segment s covers off: baseOffset <= off < nextOffset.
Covers(seg, off) == seg.baseOffset <= off /\ off < seg.nextOffset

\* The loop of Log.Read from position i: the first segment of l.segments
\* that covers off, 0 (nil) when there is none.
RECURSIVE FindSegment(_, _, _)
FindSegment(l, off, i) ==
    IF i > Len(l.segments) THEN 0
    ELSE IF Covers(l.heap[l.segments[i]], off) THEN l.segments[i]
    ELSE FindSegment(l, off, i + 1)

\* Log.Read after segment.Read on segment s, rd.
LogReadDone(l, s, rd) ==
    [err |-> rd.err, record |-> rd.record,
     l |-> [l EXCEPT !.heap[s] = rd.seg], fs |-> rd.fs]

\* Log.Read once the segment s is found, or nil.
LogReadIn(l, fs, off, s) ==
    IF s = 0
        THEN [err |-> "offset out of range", record |-> NoRecord,
              l |-> l, fs |-> fs]
    ELSE LogReadDone(l, s, segmentRead(l.heap[s], fs, off))

\* Log.Read(off) under the read lock.
LogRead(l, fs, off) == LogReadIn(l, fs, off, FindSegment(l, off, 1))

\* Log.Truncate: segment s was removed, rm.
TruncateRemoved(p, s, rm) ==
    [err |-> rm.err, l |-> [p.l EXCEPT !.heap[s] = rm.seg], fs |-> rm.fs,
     kept |-> p.kept]

\* A Truncate round that removes every segment that starts at or below
\* lowest, also one that reaches beyond it.
TruncateStepByBase(p, s, lowest) ==
    IF p.l.heap[s].baseOffset <= lowest
        THEN TruncateRemoved(p, s, segmentRemove(p.l.heap[s], p.fs))
    ELSE [p EXCEPT !.kept = Append(p.kept, s)]

\* Log.Truncate, one round of the loop on segment s: a segment with
\* nextOffset <= lowest + 1 is removed, another one is kept.
TruncateStep(p, s, lowest) ==
    IF p.l.heap[s].nextOffset <= lowest + 1
        THEN TruncateRemoved(p, s, segmentRemove(p.l.heap[s], p.fs))
    ELSE [p EXCEPT !.kept = Append(p.kept, s)]

\* The loop of Log.Truncate from position i of segs; an error of Remove
\* returns at once.
RECURSIVE TruncateLoop(_, _, _, _)
TruncateLoop(p, segs, lowest, i) ==
    IF p.err # "nil" \/ i > Len(segs) THEN p
    ELSE TruncateLoop(TruncateStep(p, segs[i], lowest), segs, lowest, i + 1)

\* Log.Truncate after the loop, lp: l.segments becomes the kept segments
\* unless Remove failed.
TruncateDone(lp) ==
    IF lp.err # "nil" THEN [err |-> lp.err, l |-> lp.l, fs |-> lp.fs]
    ELSE [err |-> "nil", l |-> [lp.l EXCEPT !.segments = lp.kept], fs |-> lp.fs]

\* Log.Truncate(lowest) under the write lock.
LogTruncate(l, fs, lowest) ==
    TruncateDone(TruncateLoop([err |-> "nil", l |-> l, fs |-> fs, kept |-> <<>>],
                              l.segments, lowest, 1))

\* Log.Close: segment s was closed, cl.
CloseClosed(p, s, cl) ==
    [err |-> cl.err, l |-> [p.l EXCEPT !.heap[s] = cl.seg], fs |-> cl.fs]

\* The loop of Log.Close from position i of segs; the first error returns.
RECURSIVE CloseLoop(_, _, _)
CloseLoop(p, segs, i) ==
    IF p.err # "nil" \/ i > Len(segs) THEN p
    ELSE CloseLoop(CloseClosed(p, segs[i],
                               segmentClose(p.l.heap[segs[i]], p.fs)),
                   segs, i + 1)

\* Log.Close under the write lock.
LogClose(l, fs) == CloseLoop([err |-> "nil", l |-> l, fs |-> fs], l.segments, 1)

\* Log.Append after segment.Append's index.Write, wr, at offset cur.
LogAppendIndexed(l, cur, wr) ==
    IF wr.err = "panic" THEN [err |-> "panic", off |-> 0, l |-> l, fs |-> wr.fs]
    ELSE [err |-> wr.err,
          off |-> IF wr.err = "nil" THEN cur ELSE 0,
          l   |-> [l EXCEPT !.heap[l.activeSegment] = wr.seg],
          fs  |-> wr.fs]

\* Log.Append after segment.Append's store.Append, ap.
LogAppendStored(l, fs, ap) ==
    IF ap.err # "nil"
        THEN [err |-> ap.err, off |-> 0,
              l |-> [l EXCEPT !.heap[l.activeSegment] = ap.seg], fs |-> fs]
    ELSE LogAppendIndexed(l, ap.cur, segmentAppendIndex(ap.seg, fs, ap.pos))

\* Log.Append after the roll, ns: segment.Append on the active segment.
LogAppendRolled(ns, value) ==
    IF ns.err # "nil" THEN [err |-> ns.err, off |-> 0, l |-> ns.l, fs |-> ns.fs]
    ELSE LogAppendStored(ns.l, ns.fs,
             segmentAppendStore(ns.l.heap[ns.l.activeSegment], value))

\* Log.Append(record) from Lock to Unlock, as one call.
LogAppend(l, fs, c, value) ==
    IF l.segments = <<>> \/ l.activeSegment = 0
        THEN [err |-> "panic", off |-> 0, l |-> l, fs |-> fs]
    ELSE IF IsMaxed(l.heap[l.activeSegment], c)
        THEN LogAppendRolled(LogNewSegment(l, fs, highestOffset(l) + 1, c), value)
    ELSE LogAppendRolled([err |-> "nil", l |-> l, fs |-> fs], value)

\* Log.Reader: one originReader per segment of l.segments, at position 0.
LogReader(l) == [i \in 1..Len(l.segments) |-> [seg |-> l.segments[i], off |-> 0]]

\* The reader of Log.Reader after originReader.Read on its first reader
\* returned rd: the bytes go to the caller and the position advances; at
\* io.EOF io.MultiReader drops that reader and goes on with the next one;
\* another error is returned to the caller.
ReaderRead(p, rd) ==
    [l       |-> [p.l EXCEPT !.heap[p.readers[1].seg].store = rd.st],
     fs      |-> rd.fs,
     out     |-> p.out \o rd.b,
     err     |-> IF rd.err \in {"nil", "EOF"} THEN "nil" ELSE rd.err,
     readers |-> IF rd.err = "EOF" THEN Tail(p.readers)
                 ELSE [p.readers EXCEPT ![1].off = @ + Len(rd.b)]]

\* The reader of Log.Reader read to its end with a buffer of n bytes:
\* io.MultiReader reads from the first reader left, and returns io.EOF when
\* none is left (err is then "EOF").
RECURSIVE ReaderDrain(_, _)
ReaderDrain(p, n) ==
    IF p.err # "nil" THEN p
    ELSE IF p.readers = <<>> THEN [p EXCEPT !.err = "EOF"]
    ELSE ReaderDrain(
            ReaderRead(p, storeReadAt(p.l.heap[p.readers[1].seg].store, p.fs,
                                      p.readers[1].off, n)),
            n)

\* Log.Reader() and the reader read to its end with a buffer of n bytes.
LogReadAll(l, fs, n) ==
    ReaderDrain([l |-> l, fs |-> fs, out |-> <<>>, err |-> "nil",
                 readers |-> LogReader(l)], n)

(* ------------------------------- state -------------------------------- *)

VARIABLES
    config,     \* l.Config, after NewLog's defaults
    l,          \* the Log: heap of segment objects, segments, activeSegment
    fs,         \* Dir, its file names and the inodes
    mu,         \* l.mu: the goroutine holding the write lock, or "none"
    pc,         \* where each goroutine is in the call it is running
    local,      \* the locals of each goroutine's call
    panicked,   \* a run-time panic or fault has ended the process
    handle,     \* "open"; "closed" once Close has returned nil; "failed"
                \* once Close or Reset has returned an error
    lastOp,     \* the last call that returned, its argument and its results
    returned,   \* history: the successful appends in the order they returned
    atClose,    \* history: what was readable when Close was called
    ops         \* the number of calls that change the log started so far

vars == <<config, l, fs, mu, pc, local, panicked, handle, lastOp, returned,
          atClose, ops>>

\* A stream handler's state: the offset its request came with and
\* req.Offset now (ConsumeStream), the records of the requests received so
\* far (ProduceStream), and the responses sent on the stream.
NoStream == [first |-> 0, offset |-> 0, reqs |-> <<>>, sent |-> <<>>]

NoLocal ==
    [value |-> <<>>, seg |-> 0, rolled |-> FALSE, cur |-> 0, pos |-> 0,
     stream |-> NoStream, readers |-> <<>>]

Result(op, arg, err, off, value) ==
    [op |-> op, arg |-> arg, err |-> err, off |-> off, value |-> value]

\* A mutex that never blocks.
LockAlwaysFree(m) == TRUE

\* l.mu.Lock() / l.mu.RLock() return only while no goroutine holds the write
\* lock (a read-locked section is a single step of the model).
LockFree(m) == m = "none"

\* A goroutine may start a call: it runs none, the process is alive, and the
\* Log is in use (its owner drops a Log once Close has returned, or once
\* Close or Reset has returned an error).
CanCall(t) == pc[t] = "idle" /\ handle = "open" /\ ~panicked

\* What Read returns for each offset, as the history variables record it.
Readable(lg, f) ==
    [o \in Offsets |->
        [err    |-> LogRead(lg, f, o).err,
         off    |-> LogRead(lg, f, o).record.Offset,
         value  |-> LogRead(lg, f, o).record.Value]]

NotClosed == [valid |-> FALSE, reads |-> <<>>]

Init ==
    \E c \in Configs :
        /\ config = WithDefaults(c)
        /\ l = setup(NoLog, NoFs, WithDefaults(c)).l
        /\ fs = setup(NoLog, NoFs, WithDefaults(c)).fs
        /\ mu = "none"
        /\ pc = [t \in Threads |-> "idle"]
        /\ local = [t \in Threads |-> NoLocal]
        /\ panicked = FALSE
        /\ handle = "open"
        /\ lastOp = Result("NewLog", 0, "nil", 0, <<>>)
        /\ returned = <<>>
        /\ atClose = NotClosed
        /\ ops = 0

\* The call of goroutine t returns: deferred unlock, result recorded.
Return(t, res) ==
    /\ pc' = [pc EXCEPT ![t] = "idle"]
    /\ local' = [local EXCEPT ![t] = NoLocal]
    /\ mu' = IF mu = t THEN "none" ELSE mu
    /\ lastOp' = res

\* A run-time panic (index out of range, nil dereference) or a fault on the
\* mapping ends the process.
Panic ==
    /\ panicked' = TRUE
    /\ UNCHANGED <<config, l, fs, mu, pc, local, handle, lastOp, returned,
                   atClose, ops>>

(* ------------------------------ Log.Append ---------------------------- *)

\* Log.Append: l.mu.Lock().
AppendLock(t, v) ==
    /\ CanCall(t)
    /\ ops < MaxOps
    /\ LockFree(mu)
    /\ mu' = t
    /\ pc' = [pc EXCEPT ![t] = "Append.roll"]
    /\ local' = [local EXCEPT ![t] = [NoLocal EXCEPT !.value = v]]
    /\ ops' = ops + 1
    /\ UNCHANGED <<config, l, fs, panicked, handle, lastOp, returned, atClose>>

\* Log.Append after Log.newSegment, ns: its error returns, else
\* segment.Append is called on the new active segment.
AppendRolled(t, ns) ==
    /\ l' = ns.l
    /\ fs' = ns.fs
    /\ IF ns.err # "nil"
           THEN Return(t, Result("Append", 0, ns.err, 0, local[t].value))
       ELSE /\ pc' = [pc EXCEPT ![t] = "Append.store"]
            /\ local' = [local EXCEPT ![t].seg = ns.l.activeSegment,
                                      ![t].rolled = TRUE]
            /\ UNCHANGED <<mu, lastOp>>
    /\ UNCHANGED <<config, panicked, handle, returned, atClose, ops>>

\* Log.Append: highestOffset, and a new segment at highestOffset + 1 when the
\* active segment is maxed.  segment.Append is then called on l.activeSegment.
AppendRoll(t) ==
    /\ pc[t] = "Append.roll"
    /\ ~panicked
    /\ IF l.segments = <<>> \/ l.activeSegment = 0
           THEN Panic
       ELSE IF IsMaxed(l.heap[l.activeSegment], config)
           THEN AppendRolled(t, LogNewSegment(l, fs, highestOffset(l) + 1, config))
       ELSE /\ pc' = [pc EXCEPT ![t] = "Append.store"]
            /\ local' = [local EXCEPT ![t].seg = l.activeSegment]
            /\ UNCHANGED <<config, l, fs, mu, panicked, handle, lastOp,
                           returned, atClose, ops>>

\* segment.Append on segment s after store.Append, ap.
AppendStored(t, s, ap) ==
    /\ l' = [l EXCEPT !.heap[s] = ap.seg]
    /\ IF ap.err # "nil"
           THEN Return(t, Result("Append", 0, ap.err, 0, local[t].value))
       ELSE /\ pc' = [pc EXCEPT ![t] = "Append.index"]
            /\ local' = [local EXCEPT ![t].cur = ap.cur, ![t].pos = ap.pos]
            /\ UNCHANGED <<mu, lastOp>>
    /\ UNCHANGED <<config, fs, panicked, handle, returned, atClose, ops>>

\* segment.Append: stamp, marshal, store.Append.
AppendStore(t) ==
    /\ pc[t] = "Append.store"
    /\ ~panicked
    /\ AppendStored(t, local[t].seg,
                    segmentAppendStore(l.heap[local[t].seg], local[t].value))

\* segment.Append on segment s after index.Write, wr; Log.Append returns the
\* offset or the error.
AppendIndexed(t, s, wr) ==
    IF wr.err = "panic" THEN Panic
    ELSE /\ l' = [l EXCEPT !.heap[s] = wr.seg]
         /\ fs' = wr.fs
         /\ IF wr.err # "nil"
                THEN /\ Return(t, Result("Append", 0, wr.err, 0, local[t].value))
                     /\ UNCHANGED returned
            ELSE /\ Return(t, Result("Append", 0, "nil", local[t].cur,
                                     local[t].value))
                 /\ returned' = Append(returned,
                                       [off |-> local[t].cur,
                                        value |-> local[t].value,
                                        by |-> t])
         /\ UNCHANGED <<config, panicked, handle, atClose, ops>>

\* segment.Append: index.Write, nextOffset++, return cur.
AppendIndex(t) ==
    /\ pc[t] = "Append.index"
    /\ ~panicked
    /\ AppendIndexed(t, local[t].seg,
                     segmentAppendIndex(l.heap[local[t].seg], fs, local[t].pos))

(* ------------------------- reads under RLock -------------------------- *)

\* Log.Read(off) returns rd.
ReadDone(t, off, rd) ==
    IF rd.err = "panic" THEN Panic
    ELSE /\ l' = rd.l
         /\ fs' = rd.fs
         /\ Return(t, Result("Read", off, rd.err, rd.record.Offset,
                             rd.record.Value))
         /\ UNCHANGED <<config, panicked, handle, returned, atClose, ops>>

\* Log.Read(off).
Read(t, off) ==
    /\ CanCall(t)
    /\ LockFree(mu)
    /\ ReadDone(t, off, LogRead(l, fs, off))

\* Log.LowestOffset(): l.segments[0].baseOffset, an index-out-of-range panic
\* when l.segments is empty.
LogLowestOffset(lg) ==
    IF lg.segments = <<>> THEN [err |-> "panic", off |-> 0]
    ELSE [err |-> "nil", off |-> lg.heap[lg.segments[1]].baseOffset]

\* Log.HighestOffset(): highestOffset, an index-out-of-range panic when
\* l.segments is empty.
LogHighestOffset(lg) ==
    IF lg.segments = <<>> THEN [err |-> "panic", off |-> 0]
    ELSE [err |-> "nil", off |-> highestOffset(lg)]

\* LowestOffset or HighestOffset returns r.
OffsetDone(t, op, r) ==
    IF r.err = "panic" THEN Panic
    ELSE /\ Return(t, Result(op, 0, "nil", r.off, <<>>))
         /\ UNCHANGED <<config, l, fs, panicked, handle, returned, atClose, ops>>

LowestOffset(t) ==
    /\ CanCall(t)
    /\ LockFree(mu)
    /\ OffsetDone(t, "LowestOffset", LogLowestOffset(l))

HighestOffset(t) ==
    /\ CanCall(t)
    /\ LockFree(mu)
    /\ OffsetDone(t, "HighestOffset", LogHighestOffset(l))

(* ------------------- Truncate, Close, Reset, NewLog ------------------- *)

\* Log.Truncate(lowest) returns tr.
TruncateReturn(t, lowest, tr) ==
    /\ l' = tr.l
    /\ fs' = tr.fs
    /\ Return(t, Result("Truncate", lowest, tr.err, 0, <<>>))

\* Log.Truncate(lowest) under the write lock.
Truncate(t, lowest) ==
    /\ CanCall(t)
    /\ ops < MaxOps
    /\ LockFree(mu)
    /\ TruncateReturn(t, lowest, LogTruncate(l, fs, lowest))
    /\ ops' = ops + 1
    /\ UNCHANGED <<config, panicked, handle, returned, atClose>>

\* Log.Close() returns cl.
CloseReturn(t, cl) ==
    /\ l' = cl.l
    /\ fs' = cl.fs
    /\ Return(t, Result("Close", 0, cl.err, 0, <<>>))
    /\ handle' = IF cl.err = "nil" THEN "closed" ELSE "failed"

\* Log.Close() under the write lock.
Close(t) ==
    /\ CanCall(t)
    /\ ops < MaxOps
    /\ LockFree(mu)
    /\ CloseReturn(t, LogClose(l, fs))
    /\ atClose' = [valid |-> TRUE, reads |-> Readable(l, fs)]
    /\ ops' = ops + 1
    /\ UNCHANGED <<config, panicked, returned>>

\* Reset after Remove's Close, cl: its error returns from Remove and Reset.
ResetClosed(t, cl) ==
    /\ l' = cl.l
    /\ fs' = cl.fs
    /\ IF cl.err # "nil"
           THEN /\ Return(t, Result("Reset", 0, cl.err, 0, <<>>))
                /\ handle' = "failed"
       ELSE /\ pc' = [pc EXCEPT ![t] = "Reset.removeAll"]
            /\ UNCHANGED <<mu, local, lastOp, handle>>

\* Log.Reset -> Log.Remove -> Log.Close(), which takes and releases the
\* write lock.
ResetClose(t) ==
    /\ CanCall(t)
    /\ ops < MaxOps
    /\ LockFree(mu)
    /\ ResetClosed(t, LogClose(l, fs))
    /\ ops' = ops + 1
    /\ UNCHANGED <<config, panicked, returned, atClose>>

\* Log.Remove: os.RemoveAll(l.Dir), outside the lock.
ResetRemoveAll(t) ==
    /\ pc[t] = "Reset.removeAll"
    /\ ~panicked
    /\ fs' = RemoveAll(fs)
    /\ pc' = [pc EXCEPT ![t] = "Reset.setup"]
    /\ UNCHANGED <<config, l, mu, local, panicked, handle, lastOp, returned,
                   atClose, ops>>

\* Reset returns what setup returned, st.
ResetReturn(t, st) ==
    /\ l' = st.l
    /\ fs' = st.fs
    /\ Return(t, Result("Reset", 0, st.err, 0, <<>>))
    /\ handle' = IF st.err = "nil" THEN handle ELSE "failed"

\* Log.Reset: l.setup(), outside the lock, on the Log as Remove left it.
ResetSetup(t) ==
    /\ pc[t] = "Reset.setup"
    /\ ~panicked
    /\ ResetReturn(t, setup(l, fs, config))
    /\ UNCHANGED <<config, panicked, returned, atClose, ops>>

\* The inodes that still have a name (the others went with the objects of
\* the Log that was closed).
Named(f) ==
    [f EXCEPT !.inodes =
        [n \in {f.names[m] : m \in NameSet(f)} |-> f.inodes[n]]]

\* NewLog returns the Log that setup made, st.
NewLogReturn(st) ==
    /\ l' = st.l
    /\ fs' = st.fs
    /\ lastOp' = Result("NewLog", 0, st.err, 0, <<>>)
    /\ handle' = IF st.err = "nil" THEN "open" ELSE "failed"

\* NewLog(dir, c) on the directory of a Log that was closed, with the same
\* Config: a new Log value, set up from the files in Dir.
NewLog ==
    /\ handle = "closed"
    /\ ~panicked
    /\ \A t \in Threads : pc[t] = "idle"
    /\ ops < MaxOps
    /\ NewLogReturn(setup(NoLog, Named(fs), config))
    /\ ops' = ops + 1
    /\ UNCHANGED <<config, mu, pc, local, panicked, returned, atClose>>

\* The reader of Log.Reader was read to its end, rd: io.EOF ends it with no
\* error.
ReadAllDone(t, n, rd) ==
    /\ l' = rd.l
    /\ fs' = rd.fs
    /\ Return(t, Result("Reader", n, IF rd.err = "EOF" THEN "nil" ELSE rd.err,
                        0, rd.out))
    /\ UNCHANGED <<config, panicked, handle, returned, atClose, ops>>

\* Log.Reader() under the read lock, and the reader it returns read to its
\* end (io.ReadAll) with a buffer of n bytes.
ReadAll(t, n) ==
    /\ CanCall(t)
    /\ LockFree(mu)
    /\ ReadAllDone(t, n, LogReadAll(l, fs, n))

\* One goroutine calls every operation of the Log, one call after the other.
Next ==
    \/ \E v \in Values : AppendLock("t1", v)
    \/ AppendRoll("t1")
    \/ AppendStore("t1")
    \/ AppendIndex("t1")
    \/ \E off \in Offsets : Read("t1", off)
    \/ LowestOffset("t1")
    \/ HighestOffset("t1")
    \/ \E lowest \in Offsets : Truncate("t1", lowest)
    \/ Close("t1")
    \/ ResetClose("t1")
    \/ ResetRemoveAll("t1")
    \/ ResetSetup("t1")
    \/ NewLog

Spec == Init /\ [][Next]_vars

\* One goroutine appends, truncates, closes and re-opens the Log, and reads
\* the Log's reader to its end.
NextReader ==
    \/ \E v \in Values : AppendLock("t1", v)
    \/ AppendRoll("t1")
    \/ AppendStore("t1")
    \/ AppendIndex("t1")
    \/ \E n \in BufferLens : ReadAll("t1", n)
    \/ \E lowest \in Offsets : Truncate("t1", lowest)
    \/ Close("t1")
    \/ NewLog

SpecReader == Init /\ [][NextReader]_vars

\* Several goroutines call Log.Append concurrently.
NextConc ==
    \/ \E t \in Threads, v \in Values : AppendLock(t, v)
    \/ \E t \in Threads : AppendRoll(t)
    \/ \E t \in Threads : AppendStore(t)
    \/ \E t \in Threads : AppendIndex(t)

SpecConc == Init /\ [][NextConc]_vars

\* Goroutine t1 appends while goroutine t2 reads.
NextRead ==
    \/ \E v \in Values : AppendLock("t1", v)
    \/ AppendRoll("t1")
    \/ AppendStore("t1")
    \/ AppendIndex("t1")
    \/ \E off \in Offsets : Read("t2", off)

SpecRead == Init /\ [][NextRead]_vars

\* Goroutine t1 resets the Log while goroutine t2 appends to it, reads it and
\* asks for its lowest and highest offsets.  Steps of the two goroutines
\* that touch the Log without a common lock are interleaved step by step.
NextReset ==
    \/ \E v \in Values : AppendLock("t2", v)
    \/ AppendRoll("t2")
    \/ AppendStore("t2")
    \/ AppendIndex("t2")
    \/ ResetClose("t1")
    \/ ResetRemoveAll("t1")
    \/ ResetSetup("t1")
    \/ \E off \in Offsets : Read("t2", off)
    \/ LowestOffset("t2")
    \/ HighestOffset("t2")

SpecReset == Init /\ [][NextReset]_vars

(* ------------------------- the server's Consume ----------------------- *)

\* grpcServer.Consume: the error of CommitLog.Read is returned as it is, with
\* no response; else the record is the response.
Consume(rd) ==
    IF rd.err # "nil" THEN [err |-> rd.err, response |-> NoRecord]
    ELSE [err |-> "nil", response |-> [Value |-> rd.value, Offset |-> rd.off]]

\* The status code a gRPC client sees for the error a handler returned:
\* the code of api.ErrOffsetOutOfRange's GRPCStatus (OutOfRange) for that
\* type, Unknown for an error without a GRPCStatus method.
StatusCode(err) ==
    IF err = "nil" THEN "OK"
    ELSE IF err = "ErrOffsetOutOfRange" THEN "OutOfRange"
    ELSE "Unknown"

(* ------------------------- the server's streams ----------------------- *)

\* What stream.Send returns: nil, or an error once the client is gone.
SendErrors == {"nil", "Unavailable"}

\* grpcServer.ProduceStream is called with a new stream.
ProduceStreamCall(t) ==
    /\ CanCall(t)
    /\ ops < MaxOps
    /\ pc' = [pc EXCEPT ![t] = "ProduceStream"]
    /\ local' = [local EXCEPT ![t] = NoLocal]
    /\ ops' = ops + 1
    /\ UNCHANGED <<config, l, fs, mu, panicked, handle, lastOp, returned,
                   atClose>>

\* ProduceStream: stream.Recv returns an error (io.EOF when the client has
\* closed its side), and the handler returns it.
ProduceStreamRecvErr(t) ==
    /\ pc[t] = "ProduceStream"
    /\ ~panicked
    /\ Return(t, Result("ProduceStream", Len(local[t].stream.reqs), "EOF", 0,
                        local[t].stream.sent))
    /\ UNCHANGED <<config, l, fs, panicked, handle, returned, atClose, ops>>

\* ProduceStream after Produce, ap, for the request with record value v:
\* the error of Produce or of stream.Send ends the handler, else the
\* response with the offset is on the stream.
ProduceStreamProduced(t, v, ap, sendErr) ==
    IF ap.err = "panic" THEN Panic
    ELSE /\ l' = ap.l
         /\ fs' = ap.fs
         /\ returned' = IF ap.err # "nil" THEN returned
                         ELSE Append(returned,
                                     [off |-> ap.off, value |-> v, by |-> t])
         /\ IF ap.err # "nil"
                THEN Return(t, Result("ProduceStream",
                                      Len(local[t].stream.reqs) + 1, ap.err, 0,
                                      local[t].stream.sent))
            ELSE IF sendErr # "nil"
                THEN Return(t, Result("ProduceStream",
                                      Len(local[t].stream.reqs) + 1, sendErr, 0,
                                      local[t].stream.sent))
            ELSE /\ local' = [local EXCEPT
                                 ![t].stream.reqs = Append(@, v),
                                 ![t].stream.sent = Append(@, [Offset |-> ap.off])]
                 /\ UNCHANGED <<pc, mu, lastOp>>
         /\ UNCHANGED <<config, panicked, handle, atClose>>

\* ProduceStream, one round of the loop: stream.Recv returns a request with
\* record value v, Produce appends it (Log.Append, under the write lock from
\* start to end), stream.Send sends the response.
ProduceStreamStep(t, v, sendErr) ==
    /\ pc[t] = "ProduceStream"
    /\ ~panicked
    /\ ops < MaxOps
    /\ LockFree(mu)
    /\ ProduceStreamProduced(t, v, LogAppend(l, fs, config, v), sendErr)
    /\ ops' = ops + 1

\* grpcServer.ConsumeStream is called with the request {Offset: k}.
ConsumeStreamCall(t, k) ==
    /\ CanCall(t)
    /\ ops < MaxOps
    /\ pc' = [pc EXCEPT ![t] = "ConsumeStream"]
    /\ local' = [local EXCEPT ![t] =
                    [NoLocal EXCEPT !.stream.first = k, !.stream.offset = k]]
    /\ ops' = ops + 1
    /\ UNCHANGED <<config, l, fs, mu, panicked, handle, lastOp, returned,
                   atClose>>

\* ConsumeStream: the stream's context is done, the handler returns nil.
ConsumeStreamDone(t) ==
    /\ pc[t] = "ConsumeStream"
    /\ ~panicked
    /\ Return(t, Result("ConsumeStream", local[t].stream.first, "nil",
                        local[t].stream.offset, local[t].stream.sent))
    /\ UNCHANGED <<config, l, fs, panicked, handle, returned, atClose, ops>>

\* A ConsumeStream that sends the record and leaves req.Offset as it is.
ConsumeStreamSameOffset(t, res, sendErr) ==
    IF res.err = "nil" /\ sendErr = "nil"
        THEN /\ local' = [local EXCEPT
                             ![t].stream.sent = Append(@, res.response)]
             /\ UNCHANGED <<pc, mu, lastOp>>
    ELSE Return(t, Result("ConsumeStream", local[t].stream.first,
                          IF res.err = "nil" THEN sendErr ELSE res.err,
                          local[t].stream.offset, local[t].stream.sent))

\* ConsumeStream after Consume, res: nil goes on to stream.Send and
\* req.Offset++, api.ErrOffsetOutOfRange goes round the loop again, every
\* other error is returned; so is the error of stream.Send.
ConsumeStreamConsumed(t, res, sendErr) ==
    IF res.err = "nil" /\ sendErr = "nil"
        THEN /\ local' = [local EXCEPT
                             ![t].stream.sent = Append(@, res.response),
                             ![t].stream.offset = @ + 1]
             /\ UNCHANGED <<pc, mu, lastOp>>
    ELSE IF res.err = "ErrOffsetOutOfRange"
        THEN UNCHANGED <<pc, mu, lastOp, local>>
    ELSE Return(t, Result("ConsumeStream", local[t].stream.first,
                          IF res.err = "nil" THEN sendErr ELSE res.err,
                          local[t].stream.offset, local[t].stream.sent))

\* ConsumeStream after Log.Read, rd, of req.Offset.
ConsumeStreamRead(t, rd, sendErr) ==
    IF rd.err = "panic" THEN Panic
    ELSE /\ l' = rd.l
         /\ fs' = rd.fs
         /\ ConsumeStreamConsumed(t,
                Consume([err |-> rd.err, value |-> rd.record.Value,
                         off |-> rd.record.Offset]),
                sendErr)
         /\ UNCHANGED <<config, panicked, handle, returned, atClose, ops>>

\* ConsumeStream, one round of the loop with the context not done: Consume
\* (Log.Read under the read lock), stream.Send, req.Offset++.
ConsumeStreamStep(t, sendErr) ==
    /\ pc[t] = "ConsumeStream"
    /\ ~panicked
    /\ LockFree(mu)
    /\ ConsumeStreamRead(t, LogRead(l, fs, local[t].stream.offset), sendErr)

\* One client streams records to the server while another consumes a
\* stream from it; each handler runs in its own goroutine.
NextServer ==
    \/ ProduceStreamCall("t1")
    \/ \E v \in Values, e \in SendErrors : ProduceStreamStep("t1", v, e)
    \/ ProduceStreamRecvErr("t1")
    \/ \E k \in Offsets : ConsumeStreamCall("t2", k)
    \/ \E e \in SendErrors : ConsumeStreamStep("t2", e)
    \/ ConsumeStreamDone("t2")

SpecServer == Init /\ [][NextServer]_vars

(* ------------------------------ properties ---------------------------- *)

\* The offsets that successful appends have returned so far.
Assigned == {returned[i].off : i \in 1..Len(returned)}

\* Read result rd is the record (value, off).
ReadIs(rd, off, value) ==
    rd.err = "nil" /\ rd.record.Offset = off /\ rd.record.Value = value

\* C1: on a fresh log on which n calls were made, all of them Appends that
\* succeeded, Read(InitialOffset + i) succeeds for every i < n and returns
\* the i-th appended value with Offset InitialOffset + i; a Read that has
\* just returned for such an offset returned exactly that.
C1_AppendThenRead ==
    ops = Len(returned) =>
        \A i \in 1..Len(returned) :
            /\ ReadIs(LogRead(l, fs, config.InitialOffset + i - 1),
                      config.InitialOffset + i - 1, returned[i].value)
            /\ (lastOp.op = "Read" /\ lastOp.arg = config.InitialOffset + i - 1)
                   => /\ lastOp.err = "nil"
                      /\ lastOp.off = lastOp.arg
                      /\ lastOp.value = returned[i].value

\* C1's case: three appends that rolled to a second segment, then a Read of
\* an offset of the first segment returned.
C1_Witness ==
    /\ ops = Len(returned)
    /\ Len(returned) >= 3
    /\ Len(l.segments) >= 2
    /\ lastOp.op = "Read"
    /\ lastOp.err = "nil"
    /\ lastOp.arg < l.heap[l.activeSegment].baseOffset

\* C2: under every interleaving of the Append calls of several goroutines,
\* the k-th Append to return successfully returns InitialOffset + k - 1: the
\* first returns InitialOffset, each one more than the one before, no offset
\* twice, also when segments roll.
C2_TotalOrder ==
    \A i \in 1..Len(returned) :
        returned[i].off = config.InitialOffset + i - 1

\* C2's case: both goroutines have appended, across a roll, and one is
\* inside Append holding the lock.
C2_Witness ==
    /\ Len(returned) >= 2
    /\ \E i, j \in 1..Len(returned) : returned[i].by # returned[j].by
    /\ Len(l.segments) >= 2
    /\ mu # "none"

\* C3: a Read of an offset that no Append has returned fails with no record,
\* and the error is the typed api.ErrOffsetOutOfRange, which the client of
\* Consume sees as status code OutOfRange.
C3_OutOfRangeKind ==
    (lastOp.op = "Read" /\ lastOp.arg \notin Assigned) =>
        /\ Consume(lastOp).err = "ErrOffsetOutOfRange"
        /\ Consume(lastOp).response = NoRecord
        /\ StatusCode(Consume(lastOp).err) = "OutOfRange"

\* Read result b is the record that read result a was.
SameRead(a, b) == b.err = "nil" /\ b.record = a.record

\* Offset o lies in a segment of lg that also holds offsets above lowest.
ReachesBeyond(lg, o, lowest) ==
    /\ FindSegment(lg, o, 1) # 0
    /\ lg.heap[FindSegment(lg, o, 1)].nextOffset > lowest + 1

\* C4 (as claimed): after a Truncate(L) that returned nil, Read(o) fails with
\* the out-of-range error for every o <= L, and every o > L that was readable
\* before returns the record it returned before.  (A Truncate step leaves
\* L in lastOp.arg.)
C4_TruncateEveryOffsetBelow ==
    [][(/\ lastOp'.op = "Truncate"
        /\ lastOp'.err = "nil"
        /\ Truncate("t1", lastOp'.arg)) =>
            \A o \in Offsets :
                /\ o <= lastOp'.arg =>
                      LogRead(l', fs', o).err = "offset out of range"
                /\ (o > lastOp'.arg /\ LogRead(l, fs, o).err = "nil") =>
                      SameRead(LogRead(l, fs, o), LogRead(l', fs', o))]_vars

\* C4 (amended): Truncate removes whole segments.  After a Truncate(L) that
\* returned nil, Read(o) fails with the out-of-range error for every o <= L
\* that does not lie in a segment reaching beyond L; every offset readable
\* before that is above L, or lies in a segment reaching beyond L, returns
\* the record it returned before.
C4_TruncateWholeSegments ==
    [][(/\ lastOp'.op = "Truncate"
        /\ lastOp'.err = "nil"
        /\ Truncate("t1", lastOp'.arg)) =>
            \A o \in Offsets :
                /\ (o <= lastOp'.arg /\ ~ReachesBeyond(l, o, lastOp'.arg)) =>
                      LogRead(l', fs', o).err = "offset out of range"
                /\ (/\ LogRead(l, fs, o).err = "nil"
                    /\ (o > lastOp'.arg \/ ReachesBeyond(l, o, lastOp'.arg))) =>
                      SameRead(LogRead(l, fs, o), LogRead(l', fs', o))]_vars

\* C4's case: Truncate(L) has returned nil on a log with records, and an
\* offset at or below L is still readable because its segment reaches
\* beyond L.
C4_Witness ==
    /\ lastOp.op = "Truncate"
    /\ lastOp.err = "nil"
    /\ pc["t1"] = "idle"
    /\ \E o \in Offsets :
          /\ o <= lastOp.arg
          /\ o + 1 \in Assigned
          /\ LogRead(l, fs, o).err = "nil"
          /\ LogRead(l, fs, o + 1).err = "nil"

\* C5: when NewLog has reopened the directory of a closed log with the same
\* Config, it succeeded, every offset that was readable when Close was called
\* reads the same record, and HighestOffset() is the offset of the last
\* successful Append.
C5_ReopenPreserves ==
    (lastOp.op = "NewLog" /\ atClose.valid /\ pc["t1"] = "idle") =>
        /\ lastOp.err = "nil"
        /\ \A o \in Offsets :
              atClose.reads[o].err = "nil" =>
                  ReadIs(LogRead(l, fs, o), atClose.reads[o].off,
                         atClose.reads[o].value)
        /\ returned # <<>> =>
              LogHighestOffset(l) =
                  [err |-> "nil", off |-> returned[Len(returned)].off]

\* C6: an Append that finds the active segment (the last element of
\* l.segments) maxed appends a new segment to l.segments, makes it the active
\* segment, gives it the base offset that follows the highest offset (the
\* offset of the last successful Append when there is one), and then stores
\* its record there: it returns that base offset, and Read of it finds the
\* record in the active segment.
C6_RollOnFull ==
    [][/\ (/\ AppendRoll("t1")
           /\ l.segments # <<>>
           /\ l.activeSegment = l.segments[Len(l.segments)]
           /\ IsMaxed(l.heap[l.activeSegment], config)) =>
              /\ l'.segments = Append(l.segments, l'.activeSegment)
              /\ l'.activeSegment > Len(l.heap)
              /\ l'.heap[l'.activeSegment].baseOffset =
                     LogHighestOffset(l).off + 1
              /\ returned # <<>> =>
                     l'.heap[l'.activeSegment].baseOffset =
                         returned[Len(returned)].off + 1
              /\ local'["t1"].rolled
       /\ (AppendIndex("t1") /\ local["t1"].rolled) =>
              /\ lastOp'.err = "nil"
              /\ lastOp'.off = l'.heap[l'.activeSegment].baseOffset
              /\ FindSegment(l', lastOp'.off, 1) = l'.activeSegment
              /\ ReadIs(LogRead(l', fs', lastOp'.off), lastOp'.off,
                        local["t1"].value)]_vars

\* The assigned offsets that Read still returns.
Surviving == {o \in Assigned : LogRead(l, fs, o).err = "nil"}

\* C7: between calls on an open log with at least one successful Append,
\* HighestOffset() returns the offset of the last successful Append, and
\* LowestOffset() returns the smallest assigned offset that is still there.
C7_LowestHighest ==
    (handle = "open" /\ ~panicked /\ pc["t1"] = "idle" /\ returned # <<>>) =>
        /\ LogHighestOffset(l) =
               [err |-> "nil", off |-> returned[Len(returned)].off]
        /\ Surviving # {} =>
               /\ LogLowestOffset(l).err = "nil"
               /\ LogLowestOffset(l).off \in Surviving
               /\ \A o \in Surviving : LogLowestOffset(l).off <= o

\* No segment of l.segments holds a record.
HoldsNoRecord ==
    \A i \in 1..Len(l.segments) :
        l.heap[l.segments[i]].nextOffset = l.heap[l.segments[i]].baseOffset

\* C8: between calls on an open log, HighestOffset() returns 0 when the log
\* holds no record, whatever InitialOffset is, and the active segment's
\* nextOffset - 1 when it holds one.
C8_HighestOffsetEmpty ==
    (handle = "open" /\ ~panicked /\ pc["t1"] = "idle") =>
        IF HoldsNoRecord
            THEN LogHighestOffset(l) = [err |-> "nil", off |-> 0]
        ELSE LogHighestOffset(l) =
                 [err |-> "nil",
                  off |-> l.heap[l.activeSegment].nextOffset - 1]

\* C9: between calls on a log that was not closed by Close, l.segments is not
\* empty, l.activeSegment is its last element, and that segment's store and
\* index are open.
C9_ActiveIsLast ==
    (handle # "closed" /\ ~panicked /\ pc["t1"] = "idle") =>
        /\ l.segments # <<>>
        /\ l.activeSegment = l.segments[Len(l.segments)]
        /\ ~l.heap[l.activeSegment].store.closed
        /\ ~l.heap[l.activeSegment].index.closed

\* C10: between calls, every two adjacent segments s1, s2 of l.segments have
\* s1.nextOffset = s2.baseOffset and s1.baseOffset < s2.baseOffset.
C10_Contiguous ==
    pc["t1"] = "idle" =>
        \A i \in 1..(Len(l.segments) - 1) :
            /\ l.heap[l.segments[i]].nextOffset =
                   l.heap[l.segments[i + 1]].baseOffset
            /\ l.heap[l.segments[i]].baseOffset <
                   l.heap[l.segments[i + 1]].baseOffset

\* C11: when Reset has returned, it returned nil, l.segments holds exactly one
\* segment, it is the active segment, it is empty and starts at
\* InitialOffset (so the next Append returns InitialOffset), and no offset
\* appended before reads a record.
C11_ResetFresh ==
    (lastOp.op = "Reset" /\ pc["t1"] = "idle") =>
        /\ lastOp.err = "nil"
        /\ Len(l.segments) = 1
        /\ l.activeSegment = l.segments[1]
        /\ l.heap[l.activeSegment].baseOffset = config.InitialOffset
        /\ l.heap[l.activeSegment].nextOffset = config.InitialOffset
        /\ \A o \in Assigned : LogRead(l, fs, o).err # "nil"

\* The bytes of store st: its file from position 0 and the frames still in
\* its write buffer.
StoreContent(st, f) ==
    Bytes(f.inodes[st.ino], 0, f.inodes[st.ino].len) \o st.buf

\* The content of the stores of the segments of l.segments from position i
\* on, in the order of the list.
RECURSIVE StoresFrom(_)
StoresFrom(i) ==
    IF i > Len(l.segments) THEN <<>>
    ELSE StoreContent(l.heap[l.segments[i]].store, fs) \o StoresFrom(i + 1)

\* The frame of the record (value, off): the length of its payload in
\* lenWidth bytes, big-endian, and the payload.
Frame(value, off) ==
    PutUint(Len(Marshal([Value |-> value, Offset |-> off])), lenWidth)
        \o Marshal([Value |-> value, Offset |-> off])

\* The frames of the records appended from the i-th on that are still in the
\* log, in the order of their offsets.
RECURSIVE FramesFrom(_)
FramesFrom(i) ==
    IF i > Len(returned) THEN <<>>
    ELSE (IF returned[i].off \in Surviving
            THEN Frame(returned[i].value, returned[i].off) ELSE <<>>)
         \o FramesFrom(i + 1)

\* C12: when the reader of Log.Reader has been read to its end, it ended
\* without error and yielded the content of every segment's store from
\* position 0 in the order of l.segments, the frames that were still in a
\* write buffer included; that is, for every appended record still in the
\* log, its lenWidth-byte big-endian length and its payload, in the order of
\* the offsets.
C12_ReaderYieldsStores ==
    (lastOp.op = "Reader" /\ pc["t1"] = "idle") =>
        /\ lastOp.err = "nil"
        /\ lastOp.value = StoresFrom(1)
        /\ lastOp.value = FramesFrom(1)

\* The Config has no room for one index entry, or for the smallest frame.
TooSmall(c) ==
    c.MaxIndexBytes < entWidth \/ c.MaxStoreBytes < lenWidth + 1

\* C13: with MaxIndexBytes < entWidth or MaxStoreBytes < lenWidth + 1, between
\* calls: no Append has succeeded, however many were made; no offset reads a
\* record; no store holds a byte; and every segment of l.segments starts
\* where the one before it ends, at a larger base offset.
C13_TooSmallConfigRejected ==
    (TooSmall(config) /\ pc["t1"] = "idle") =>
        /\ returned = <<>>
        /\ lastOp.op = "Append" => lastOp.err # "nil"
        /\ \A o \in Offsets : LogRead(l, fs, o).err # "nil"
        /\ \A i \in 1..Len(l.segments) :
               StoreContent(l.heap[l.segments[i]].store, fs) = <<>>
        /\ \A i \in 1..(Len(l.segments) - 1) :
               /\ l.heap[l.segments[i]].nextOffset =
                      l.heap[l.segments[i + 1]].baseOffset
               /\ l.heap[l.segments[i]].baseOffset <
                      l.heap[l.segments[i + 1]].baseOffset

\* Goroutine t1 is inside Log.Reset, between the Close of the segments and
\* the end of setup.
InReset == pc["t1"] \in {"Reset.removeAll", "Reset.setup"}

\* C14: Reset runs under the write lock from its first change of the Log to
\* its last (os.RemoveAll and setup are steps of the lock's holder), and
\* while it runs no Read, Append, LowestOffset or HighestOffset of another
\* goroutine takes a step.
C14_ResetUnderWriteLock ==
    [][/\ (ResetRemoveAll("t1") \/ ResetSetup("t1")) => mu = "t1"
       /\ InReset =>
              ~(\/ \E off \in Offsets : Read("t2", off)
                \/ \E v \in Values : AppendLock("t2", v)
                \/ LowestOffset("t2")
                \/ HighestOffset("t2"))]_vars

\* The value appended at offset o.
ValueAt(o) ==
    returned[CHOOSE i \in 1..Len(returned) : returned[i].off = o].value

\* C15: while one goroutine appends and another reads, a Read that has
\* returned, for an offset some Append had returned before the Read took the
\* lock, returned that record: the value appended, stamped with the offset.
C15_ReadAfterAppendReturned ==
    (lastOp.op = "Read" /\ lastOp.arg \in Assigned) =>
        /\ lastOp.err = "nil"
        /\ lastOp.off = lastOp.arg
        /\ lastOp.value = ValueAt(lastOp.arg)

\* Goroutine t2 has read the record goroutine t1 appended last, the second
\* frame of its segment, which was in the store's write buffer until then.
C15_Witness ==
    /\ lastOp.op = "Read"
    /\ lastOp.err = "nil"
    /\ Len(returned) >= 2
    /\ lastOp.arg = returned[Len(returned)].off
    /\ returned[Len(returned)].by = "t1"
    /\ l.heap[l.activeSegment].baseOffset < lastOp.arg

\* C16: with MaxIndexBytes >= entWidth no Append returns io.EOF, and Append
\* calls index.Write only on an index that has room for one more entry.
C16_NoIndexFull ==
    config.MaxIndexBytes >= entWidth =>
        /\ lastOp.op = "Append" => lastOp.err # "EOF"
        /\ pc["t1"] = "Append.index" =>
               ~isMaxed(l.heap[local["t1"].seg].index)

\* An Append succeeded right after it rolled because the index of the active
\* segment was full while its store was far below MaxStoreBytes.
C16_Witness ==
    /\ config.MaxIndexBytes = 30
    /\ lastOp.op = "Append"
    /\ lastOp.err = "nil"
    /\ pc["t1"] = "idle"
    /\ Len(l.segments) >= 2
    /\ l.heap[l.activeSegment].baseOffset = lastOp.off
    /\ isMaxed(l.heap[l.segments[Len(l.segments) - 1]].index)

\* The responses sent are the records at the offsets first, first + 1, ...
\* up to offset - 1, each once, each as it was produced.
SentInOrder(first, offset, sent) ==
    /\ offset = first + Len(sent)
    /\ \A i \in 1..Len(sent) :
           /\ first + i - 1 \in Assigned
           /\ sent[i] = [Value |-> ValueAt(first + i - 1),
                         Offset |-> first + i - 1]

\* The responses sent answer the requests one for one, in order: the i-th
\* carries the offset the i-th request's record was appended at.
AnsweredInOrder(reqs, sent) ==
    /\ Len(sent) = Len(reqs)
    /\ Len(reqs) <= Len(returned)
    /\ \A i \in 1..Len(reqs) :
           /\ returned[Len(returned) - Len(reqs) + i].value = reqs[i]
           /\ sent[i] = [Offset |-> returned[Len(returned) - Len(reqs) + i].off]

C18_UsableAfterTruncateAll ==
    (l.segments = <<>> /\ lastOp.op = "Truncate" /\ pc["t1"] = "idle") =>
        /\ \A v \in Values :
               /\ LogAppend(l, fs, config, v).err = "nil"
               /\ LogAppend(l, fs, config, v).l.activeSegment # 0
               /\ LogAppend(l, fs, config, v).l.segments # <<>>
               /\ \A o \in Assigned : LogAppend(l, fs, config, v).off > o
        /\ LogLowestOffset(l).err # "panic"
        /\ LogHighestOffset(l).err # "panic"
        /\ \A o \in Offsets : LogRead(l, fs, o).err # "panic"

\* The last Append returned the error of index.Write after its frame had
\* gone into the store of the active segment.
IndexWriteFailed ==
    /\ lastOp.op = "Append"
    /\ lastOp.err = "EOF"
    /\ pc["t1"] = "idle"

\* The bytes b end with the bytes e.
EndsWith(b, e) ==
    Len(b) >= Len(e) /\ SubSeq(b, Len(b) - Len(e) + 1, Len(b)) = e

\* What Read returned, rd, is an error or a record that a successful Append
\* stored, at its offset.
ReadIsOfAppend(rd) ==
    rd.err = "nil" =>
        \E i \in 1..Len(returned) :
            ReadIs(rd, returned[i].off, returned[i].value)

PastEnd(o) == o >= config.InitialOffset /\ \A a \in Assigned : a < o

\* C20: a ConsumeStream whose req.Offset is past the end of the log ends only
\* when its context is done, and then with nil: a round of its loop at such
\* an offset leaves the stream open at the same offset.
C20_ConsumeStreamWaitsAtEnd ==
    [][(/\ pc["t2"] = "ConsumeStream"
        /\ PastEnd(local["t2"].stream.offset)
        /\ pc'["t2"] # "ConsumeStream")
           => /\ ConsumeStreamDone("t2")
              /\ lastOp'.err = "nil"]_vars

\* The bytes b hold, from 0-based position pos, a complete frame whose
\* payload is a record stamped with offset off that some Append stored.
FrameOfRecordAt(b, pos, off) ==
    /\ pos + lenWidth <= Len(b)
    /\ pos + lenWidth + Uint(SubSeq(b, pos + 1, pos + lenWidth)) <= Len(b)
    /\ ReadIsOfAppend(
           Unmarshal(SubSeq(b, pos + lenWidth + 1,
                            pos + lenWidth
                                + Uint(SubSeq(b, pos + 1, pos + lenWidth)))))
    /\ Unmarshal(SubSeq(b, pos + lenWidth + 1,
                        pos + lenWidth
                            + Uint(SubSeq(b, pos + 1, pos + lenWidth))))
           .record.Offset = off

\* Entry k of the index file f of segment seg holds relative offset k and the
\* position of the frame of record baseOffset + k in the store's bytes b.
EntryIsRecord(seg, f, b, k) ==
    /\ Uint(Bytes(f, k * entWidth, offWidth)) = k
    /\ FrameOfRecordAt(b, Uint(Bytes(f, k * entWidth + offWidth, posWidth)),
                       seg.baseOffset + k)

\* C21: in every state, in every segment of l.segments: index.size is a
\* multiple of entWidth, baseOffset plus the number of entries is nextOffset,
\* and entry k holds relative offset k and the position of a complete frame
\* of the segment's store whose payload is the record with offset
\* baseOffset + k.
C21_IndexMatchesStore ==
    \A i \in 1..Len(l.segments) :
        /\ l.heap[l.segments[i]].index.size % entWidth = 0
        /\ l.heap[l.segments[i]].baseOffset
               + l.heap[l.segments[i]].index.size \div entWidth
             = l.heap[l.segments[i]].nextOffset
        /\ \A k \in 0..(l.heap[l.segments[i]].index.size \div entWidth - 1) :
               EntryIsRecord(l.heap[l.segments[i]],
                             fs.inodes[l.heap[l.segments[i]].index.ino],
                             StoreContent(l.heap[l.segments[i]].store, fs), k)

\* The arguments (off, pos) index.Write is called with: relative offsets
\* and store positions of one and of several bytes.
WriteArgs == {<<0, 0>>, <<3, 70000>>, <<70000, 27>>}

\* index.Write(off, pos) on index idx with file system f returned wr: io.EOF
\* and nothing changed when the mapping has no room for an entry, else the
\* entry (off, pos) is entry size / entWidth, size grew by entWidth and the
\* bytes of the earlier entries are what they were.
WriteIsExact(idx, f, off, pos, wr) ==
    IF idx.mmapLen < idx.size + entWidth
        THEN wr = [err |-> "EOF", idx |-> idx, fs |-> f]
    ELSE /\ wr.err = "nil"
         /\ wr.idx = [idx EXCEPT !.size = idx.size + entWidth]
         /\ indexReadEntry(wr.idx, wr.fs.inodes[idx.ino], idx.size \div entWidth)
                = [err |-> "nil", out |-> off, pos |-> pos]
         /\ Bytes(wr.fs.inodes[idx.ino], 0, idx.size)
                = Bytes(f.inodes[idx.ino], 0, idx.size)
         /\ \A n \in DOMAIN f.inodes \ {idx.ino} : wr.fs.inodes[n] = f.inodes[n]
         /\ wr.fs.names = f.names

\* C22: on every index of an open Log that is not closed, index.Write(off, pos)
\* fails with io.EOF exactly when the mapping is shorter than size +
\* entWidth, and then changes nothing; otherwise it stores (off, pos) as
\* entry size / entWidth and adds entWidth to size, leaving every earlier
\* entry as it was.
C22_WriteExact ==
    (handle = "open" /\ ~panicked) =>
        \A i \in 1..Len(l.segments), a \in WriteArgs :
            l.heap[l.segments[i]].index.closed \/
            WriteIsExact(l.heap[l.segments[i]].index, fs, a[1], a[2],
                         indexWrite(l.heap[l.segments[i]].index, fs, a[1], a[2]))

\* Append has written the second entry of an index through index.Write, and
\* the index of another segment of the list is full.
C22_Witness ==
    /\ handle = "open"
    /\ lastOp.op = "Append"
    /\ lastOp.err = "nil"
    /\ pc["t1"] = "idle"
    /\ l.heap[l.activeSegment].index.size = 2 * entWidth
    /\ ~l.heap[l.activeSegment].index.closed
    /\ ~isMaxed([l.heap[l.activeSegment].index EXCEPT !.size = entWidth])
    /\ \E i \in 1..Len(l.segments) :
           /\ l.segments[i] # l.activeSegment
           /\ l.heap[l.segments[i]].index.size > 0
           /\ isMaxed(l.heap[l.segments[i]].index)

\* The entry numbers index.Read is called with, as hi * 2^32 + lo: entries
\* that can be there, entries past them, and the first number that does not
\* fit 32 bits.
ReadArgs == {[hi |-> 0, lo |-> k] : k \in 0..3} \cup {[hi |-> 1, lo |-> 0]}

\* index.Read of entry k of index idx returned rd: the pair the k-th Write
\* stored, which for the index of segment seg is (k, position of the frame
\* of record baseOffset + k in the store's bytes b).
ReadIsEntry(seg, b, k, rd) ==
    /\ rd.err = "nil"
    /\ rd.out = k
    /\ FrameOfRecordAt(b, rd.pos, seg.baseOffset + k)

\* index.Read on the index of segment seg, whose store holds the bytes b:
\* io.EOF for every argument when the index is empty and for every entry
\* number at or past size / entWidth, the last entry for -1, and entry in
\* for an entry number below size / entWidth.
ReadIsExact(seg, f, b) ==
    /\ IF seg.index.size < entWidth
           THEN indexRead(seg.index, f, -1).err = "EOF"
       ELSE ReadIsEntry(seg, b, seg.index.size \div entWidth - 1,
                        indexRead(seg.index, f, -1))
    /\ \A a \in ReadArgs :
           IF a.hi = 0 /\ a.lo < seg.index.size \div entWidth
               THEN ReadIsEntry(seg, b, a.lo,
                                indexReadInt64(seg.index, f, a.hi, a.lo))
           ELSE indexReadInt64(seg.index, f, a.hi, a.lo).err = "EOF"

FlushErrors == {"ENOSPC"}

\* C24: store.Close leaves the file closed on every path: after a Flush that
\* succeeded or failed on its own, and after a Flush that the operating
\* system failed, in which case Close returns that error.
C24_CloseAlwaysClosesFile ==
    \A i \in 1..Len(l.segments) :
        /\ storeClose(l.heap[l.segments[i]].store, fs).st.closed
        /\ \A e \in FlushErrors :
               /\ storeCloseFlushed([err |-> e,
                                     st |-> l.heap[l.segments[i]].store,
                                     fs |-> fs]).err = e
               /\ storeCloseFlushed([err |-> e,
                                     st |-> l.heap[l.segments[i]].store,
                                     fs |-> fs]).st.closed

\* C25: in every segment, an index whose Close has closed the file has
\* dropped its mapping, and a store is closed only after the index of its
\* segment (segment.Close closes the index first).
C25_CloseDropsMapping ==
    \A p \in 1..Len(l.heap) :
        /\ l.heap[p].index.closed => l.heap[p].index.mmapLen = 0
        /\ l.heap[p].store.closed => l.heap[p].index.closed

(* ------------------- the locks, acquisition by acquisition ------------ *)

\* Where a goroutine is inside l.mu.RLock() ... RUnlock() of Log.Read.
ReadLocked == {"Read.rlocked", "Read.storeLocked"}

\* Where a goroutine is inside s.mu.Lock() ... Unlock() of the store of
\* segment local.seg: in store.Append, store.Read and store.ReadAt.
StoreLocked == {"Append.storeLocked", "Read.storeLocked", "Reader.storeLocked"}

HoldsLog(u) == mu = u \/ pc[u] \in ReadLocked

HoldsStore(u, p) == pc[u] \in StoreLocked /\ local[u].seg = p

\* l.mu.Lock() returns: no writer and no reader holds l.mu.
LogLockFree == mu = "none" /\ \A u \in Threads : pc[u] \notin ReadLocked

\* s.mu.Lock() of the store of segment p returns.
StoreFree(p) == \A u \in Threads : ~HoldsStore(u, p)

\* The segments whose store Log.Truncate(lowest) closes.
Removed(lowest) ==
    {l.segments[i] : i \in {j \in 1..Len(l.segments) :
                               l.heap[l.segments[j]].nextOffset <= lowest + 1}}

\* The segments whose store Log.Close closes.
Closed == {l.segments[i] : i \in 1..Len(l.segments)}

\* The store mutexes the next step of goroutine t locks.
NeedsStore(t) ==
    IF pc[t] \in {"Append.store", "Read.rlocked"} THEN {local[t].seg} \ {0}
    ELSE IF pc[t] = "Reader.read" THEN {local[t].readers[1].seg}
    ELSE IF pc[t] \in {"Close.locked", "Reset.closeLocked"} THEN Closed
    ELSE IF pc[t] = "Truncate.locked" THEN Removed(local[t].cur)
    ELSE {}

\* The next step of goroutine t, which is inside a call, locks l.mu: the
\* Close that Remove calls for Reset.
NeedsLog(t) == pc[t] = "Reset.close"

\* Goroutine t waits for a lock that goroutine u holds.
WaitsFor(t, u) ==
    \/ NeedsLog(t) /\ HoldsLog(u)
    \/ \E p \in NeedsStore(t) : HoldsStore(u, p)

\* Log.Append: store.Append's s.mu.Lock(), under l.mu.
AppendStoreLock(t) ==
    /\ pc[t] = "Append.store"
    /\ ~panicked
    /\ StoreFree(local[t].seg)
    /\ pc' = [pc EXCEPT ![t] = "Append.storeLocked"]
    /\ UNCHANGED <<config, l, fs, mu, local, panicked, handle, lastOp,
                   returned, atClose, ops>>

\* segment.Append: stamp, marshal, store.Append with s.mu held.
AppendStoreLocked(t) ==
    /\ pc[t] = "Append.storeLocked"
    /\ ~panicked
    /\ AppendStored(t, local[t].seg,
                    segmentAppendStore(l.heap[local[t].seg], local[t].value))

\* Log.Read(off): l.mu.RLock() and the search for the segment of off.
ReadRLock(t, off) ==
    /\ CanCall(t)
    /\ LockFree(mu)
    /\ pc' = [pc EXCEPT ![t] = "Read.rlocked"]
    /\ local' = [local EXCEPT ![t] = [NoLocal EXCEPT
                                         !.cur = off,
                                         !.seg = FindSegment(l, off, 1)]]
    /\ UNCHANGED <<config, l, fs, mu, panicked, handle, lastOp, returned,
                   atClose, ops>>

\* Log.Read after index.Read, ix, on the segment found: an error returns,
\* else store.Read's s.mu.Lock().
ReadIndexed(t, ix) ==
    IF ix.err # "nil" THEN ReadDone(t, local[t].cur, LogRead(l, fs, local[t].cur))
    ELSE /\ StoreFree(local[t].seg)
         /\ pc' = [pc EXCEPT ![t] = "Read.storeLocked"]
         /\ UNCHANGED <<config, l, fs, mu, local, panicked, handle, lastOp,
                        returned, atClose, ops>>

\* Log.Read under the read lock: no segment returns the out-of-range error,
\* else segment.Read's index.Read.
ReadSegment(t) ==
    /\ pc[t] = "Read.rlocked"
    /\ ~panicked
    /\ IF local[t].seg = 0
           THEN ReadDone(t, local[t].cur, LogRead(l, fs, local[t].cur))
       ELSE ReadIndexed(t, indexRead(l.heap[local[t].seg].index, fs,
                                     local[t].cur
                                         - l.heap[local[t].seg].baseOffset))

\* segment.Read: store.Read with s.mu held, unmarshal; Log.Read returns.
ReadStore(t) ==
    /\ pc[t] = "Read.storeLocked"
    /\ ~panicked
    /\ ReadDone(t, local[t].cur, LogRead(l, fs, local[t].cur))

\* Log.Reader() returned the readers rs, to be read with a buffer of n bytes.
ReaderOpened(t, n, rs) ==
    IF rs = <<>> THEN /\ Return(t, Result("Reader", n, "nil", 0, <<>>))
                      /\ UNCHANGED <<config, l, fs, panicked, handle,
                                     returned, atClose, ops>>
    ELSE /\ pc' = [pc EXCEPT ![t] = "Reader.read"]
         /\ local' = [local EXCEPT ![t] = [NoLocal EXCEPT !.readers = rs,
                                                          !.pos = n]]
         /\ UNCHANGED <<config, l, fs, mu, panicked, handle, lastOp,
                        returned, atClose, ops>>

\* Log.Reader(): one reader per segment, made under the read lock.
ReaderOpen(t, n) ==
    /\ CanCall(t)
    /\ LockFree(mu)
    /\ ReaderOpened(t, n, LogReader(l))

\* originReader.Read on the first reader left: store.ReadAt's s.mu.Lock(),
\* with no lock of the Log held.
ReaderStoreLock(t) ==
    /\ pc[t] = "Reader.read"
    /\ ~panicked
    /\ StoreFree(local[t].readers[1].seg)
    /\ pc' = [pc EXCEPT ![t] = "Reader.storeLocked"]
    /\ local' = [local EXCEPT ![t].seg = local[t].readers[1].seg]
    /\ UNCHANGED <<config, l, fs, mu, panicked, handle, lastOp, returned,
                   atClose, ops>>

\* originReader.Read returned, rr: the reader is at its end, or failed, or
\* the caller reads on.
ReaderReadDone(t, rr) ==
    /\ l' = rr.l
    /\ fs' = rr.fs
    /\ IF rr.err # "nil" \/ rr.readers = <<>>
           THEN Return(t, Result("Reader", local[t].pos, rr.err, 0, <<>>))
       ELSE /\ pc' = [pc EXCEPT ![t] = "Reader.read"]
            /\ local' = [local EXCEPT ![t].readers = rr.readers, ![t].seg = 0]
            /\ UNCHANGED <<mu, lastOp>>
    /\ UNCHANGED <<config, panicked, handle, returned, atClose, ops>>

\* store.ReadAt with s.mu held: flush, File.ReadAt.
ReaderReadAt(t) ==
    /\ pc[t] = "Reader.storeLocked"
    /\ ~panicked
    /\ ReaderReadDone(t,
           ReaderRead([l |-> l, fs |-> fs, out |-> <<>>, err |-> "nil",
                       readers |-> local[t].readers],
                      storeReadAt(l.heap[local[t].seg].store, fs,
                                  local[t].readers[1].off, local[t].pos)))

\* Log.Close: l.mu.Lock().
CloseLock(t) ==
    /\ CanCall(t)
    /\ ops < MaxOps
    /\ LogLockFree
    /\ mu' = t
    /\ pc' = [pc EXCEPT ![t] = "Close.locked"]
    /\ ops' = ops + 1
    /\ UNCHANGED <<config, l, fs, local, panicked, handle, lastOp, returned,
                   atClose>>

\* Log.Close under the write lock: every segment is closed, its store with
\* s.mu.Lock().
CloseLocked(t) ==
    /\ pc[t] = "Close.locked"
    /\ ~panicked
    /\ \A p \in Closed : StoreFree(p)
    /\ CloseReturn(t, LogClose(l, fs))
    /\ atClose' = [valid |-> TRUE, reads |-> Readable(l, fs)]
    /\ UNCHANGED <<config, panicked, returned, ops>>

\* Log.Truncate(lowest): l.mu.Lock().
TruncateLock(t, lowest) ==
    /\ CanCall(t)
    /\ ops < MaxOps
    /\ LogLockFree
    /\ mu' = t
    /\ pc' = [pc EXCEPT ![t] = "Truncate.locked"]
    /\ local' = [local EXCEPT ![t] = [NoLocal EXCEPT !.cur = lowest]]
    /\ ops' = ops + 1
    /\ UNCHANGED <<config, l, fs, panicked, handle, lastOp, returned, atClose>>

\* Log.Truncate under the write lock: the segments removed are closed, their
\* stores with s.mu.Lock().
TruncateLocked(t) ==
    /\ pc[t] = "Truncate.locked"
    /\ ~panicked
    /\ \A p \in Removed(local[t].cur) : StoreFree(p)
    /\ TruncateReturn(t, local[t].cur, LogTruncate(l, fs, local[t].cur))
    /\ UNCHANGED <<config, panicked, handle, returned, atClose, ops>>

\* A Reset that locks l.mu for itself before it calls Remove.
ResetCallLocked(t) ==
    /\ CanCall(t)
    /\ ops < MaxOps
    /\ LogLockFree
    /\ mu' = t
    /\ pc' = [pc EXCEPT ![t] = "Reset.close"]
    /\ ops' = ops + 1
    /\ UNCHANGED <<config, l, fs, local, panicked, handle, lastOp, returned,
                   atClose>>

\* Log.Reset calls Log.Remove, which calls Log.Close: no lock is taken on
\* the way.
ResetCall(t) ==
    /\ CanCall(t)
    /\ ops < MaxOps
    /\ pc' = [pc EXCEPT ![t] = "Reset.close"]
    /\ ops' = ops + 1
    /\ UNCHANGED <<config, l, fs, mu, local, panicked, handle, lastOp,
                   returned, atClose>>

\* Reset's Close: l.mu.Lock().
ResetCloseLock(t) ==
    /\ pc[t] = "Reset.close"
    /\ ~panicked
    /\ LogLockFree
    /\ mu' = t
    /\ pc' = [pc EXCEPT ![t] = "Reset.closeLocked"]
    /\ UNCHANGED <<config, l, fs, local, panicked, handle, lastOp, returned,
                   atClose, ops>>

\* Reset's Close returned cl and has unlocked l.mu: its error returns from
\* Remove and Reset, else Remove goes on.
ResetUnlocked(t, cl) ==
    /\ l' = cl.l
    /\ fs' = cl.fs
    /\ IF cl.err # "nil"
           THEN /\ Return(t, Result("Reset", 0, cl.err, 0, <<>>))
                /\ handle' = "failed"
       ELSE /\ pc' = [pc EXCEPT ![t] = "Reset.removeAll"]
            /\ mu' = "none"
            /\ UNCHANGED <<local, lastOp, handle>>

\* Reset's Close under the write lock.
ResetCloseLocked(t) ==
    /\ pc[t] = "Reset.closeLocked"
    /\ ~panicked
    /\ \A p \in Closed : StoreFree(p)
    /\ ResetUnlocked(t, LogClose(l, fs))
    /\ UNCHANGED <<config, panicked, returned, atClose, ops>>

\* The length of the buffer the Log's reader is read with while the Log is
\* written: longer than a frame.
LockBufferLens == {16}

\* The Log is made with the all-zero Config or with a store threshold that
\* the second record passes.
InitLock == Init /\ config.MaxIndexBytes \in {DefaultMaxIndexBytes, 48}

\* Goroutine t1 appends, truncates, closes and resets the Log while
\* goroutine t2 reads it and reads the Log's reader to its end, every Lock
\* and RLock of l.mu and every Lock of a store's mutex a step of its own.
NextLock ==
    \/ \E v \in Values : LogLockFree /\ AppendLock("t1", v)
    \/ AppendRoll("t1")
    \/ AppendStoreLock("t1")
    \/ AppendStoreLocked("t1")
    \/ AppendIndex("t1")
    \/ \E off \in Offsets : ReadRLock("t2", off)
    \/ ReadSegment("t2")
    \/ ReadStore("t2")
    \/ \E n \in LockBufferLens : ReaderOpen("t2", n)
    \/ ReaderStoreLock("t2")
    \/ ReaderReadAt("t2")
    \/ CloseLock("t1")
    \/ CloseLocked("t1")
    \/ \E lowest \in Offsets : TruncateLock("t1", lowest)
    \/ TruncateLocked("t1")
    \/ ResetCall("t1")
    \/ ResetCloseLock("t1")
    \/ ResetCloseLocked("t1")
    \/ ResetRemoveAll("t1")
    \/ ResetSetup("t1")

SpecLock == InitLock /\ [][NextLock]_vars

\* C26: locks are taken top to bottom, and no goroutine waits for a lock
\* forever.  In every state, no goroutine that holds a store's mutex is about
\* to lock l.mu; no goroutine that is about to lock l.mu holds l.mu itself;
\* and no two goroutines wait for each other's locks.
C26_LocksTopToBottom ==
    ~panicked =>
        /\ \A t \in Threads : pc[t] \in StoreLocked => ~NeedsLog(t)
        /\ \A t \in Threads : NeedsLog(t) => ~HoldsLog(t)
        /\ \A t, u \in Threads : ~(WaitsFor(t, u) /\ WaitsFor(u, t))

\* A goroutine holds l.mu and waits for the mutex of a store that another
\* goroutine, which reads the Log's reader, holds.
C26_Witness ==
    /\ ~panicked
    /\ mu = "t1"
    /\ pc["t2"] = "Reader.storeLocked"
    /\ WaitsFor("t1", "t2")

\* What a caller sees of a Read: the value, or that there is none.
ReadOrNone(rd) ==
    IF rd.err = "nil" THEN [ok |-> TRUE, value |-> rd.record.Value]
    ELSE [ok |-> FALSE, value |-> <<>>]

\* The observable log: what LowestOffset, HighestOffset and Read of every
\* offset return.
Observable(lg, f) ==
    [lowest   |-> LogLowestOffset(lg),
     highest  |-> LogHighestOffset(lg),
     readable |-> [o \in Offsets |-> ReadOrNone(LogRead(lg, f, o))]]

\* C27: a Log.Append that returns an error leaves the observable log
\* unchanged.  Every step of an Append by goroutine t1 other than its
\* successful return (the roll, store.Append, a failing index.Write) leaves
\* LowestOffset, HighestOffset and what Read returns for every offset as
\* they were, so they are at an error return what they were at the call.
C27_FailedAppendNoEffect ==
    [][(/\ pc["t1"] \in {"Append.roll", "Append.store", "Append.index"}
        /\ ~(pc'["t1"] = "idle" /\ lastOp'.err = "nil"))
           => Observable(l', fs') = Observable(l, fs)]_vars

\* An Append has returned an error.
C27_Witness == lastOp.op = "Append" /\ lastOp.err # "nil" /\ ~panicked

====
